---- MODULE Spec2Model ----
(***************************************************************************)
(* TabSplit: a receipt is extracted from an image, its items are assigned  *)
(* to people by hand or by chat commands, and tax and tip are distributed  *)
(* in proportion.  The model follows the bundled application (index.tsx):  *)
(* the App state, the ReceiptPanel / ReceiptDisplay handlers, the          *)
(* ChatPanel handlers and the two calls of geminiService.                  *)
(*                                                                         *)
(* Money is an exact rational [n, d] in lowest terms with d > 0.           *)
(***************************************************************************)
EXTENDS Integers, Sequences, FiniteSets, TLC

VARIABLES
    receiptData,        \* App state: ReceiptData | null
    billSplit,          \* App state: BillSplit
    chatMessages,       \* App state: ChatMessage[]
    isLoading,          \* App state: the busy flag
    error,              \* App state: string | null
    isReceiptEditing,   \* App state: Viewing (FALSE) / Editing (TRUE)
    editingReceiptData, \* ReceiptDisplay state: the draft | null
    pending,            \* promises of external calls that have not settled yet
    nDraftEdits,        \* number of draft mutations made so far (bounded)
    preEditReceipt,     \* history: the Receipt when Editing was last entered
    lastOp              \* history: the operation that produced this state

vars == <<receiptData, billSplit, chatMessages, isLoading, error,
          isReceiptEditing, editingReceiptData, pending,
          nDraftEdits, preEditReceipt, lastOp>>

appVars == <<receiptData, billSplit, chatMessages, isLoading, error,
             isReceiptEditing>>

-----------------------------------------------------------------------------
(* Bounds *)

MaxCalls == 2        \* external calls that may be unsettled at once
MaxLog == 3          \* entries the Conversation Log may hold
MaxPieces == 2       \* comma separated pieces of the assignee input
MaxItems == 3        \* line items a draft may hold
MaxDraftEdits == 1   \* draft mutations in one run

-----------------------------------------------------------------------------
(* Exact rational arithmetic (JavaScript numbers, without rounding) *)

Abs(x) == IF x < 0 THEN -x ELSE x

RECURSIVE GCD(_, _)
GCD(a, b) == IF b = 0 THEN a ELSE GCD(b, a % b)

Rat(n, d) ==
    LET s == IF d < 0 THEN -1 ELSE 1
        g == GCD(Abs(n), Abs(d))
    IN  [n |-> (s * n) \div g, d |-> (s * d) \div g]

Num(k) == [n |-> k, d |-> 1]

Zero == Num(0)

RAdd(a, b) == Rat(a.n * b.d + b.n * a.d, a.d * b.d)

RMul(a, b) == Rat(a.n * b.n, a.d * b.d)

RDiv(a, b) == Rat(a.n * b.d, a.d * b.n)

-----------------------------------------------------------------------------
(* Types *)

\* null for a value that is otherwise a record (ReceiptData | null)
NULL == [null |-> TRUE]

\* null for the error string (a set error is never the empty string)
NoError == ""

ReceiptItem(name, qty, price) ==
    [item_name |-> name, quantity |-> qty, price |-> price]

ReceiptDataOf(items, subtotal, tax, tip, total) ==
    [items |-> items, subtotal |-> subtotal, tax |-> tax, tip |-> tip,
     total |-> total]

AssignedItem(name, price) == [item_name |-> name, price |-> price]

PersonSplit(name, items, subtotal, tax, tip, total) ==
    [person_name |-> name, items |-> items, subtotal |-> subtotal,
     tax |-> tax, tip |-> tip, total |-> total]

\* text is kept in parts: the fixed wording, the string put into it, the names listed
ChatMessage(sender, kind, arg, names) ==
    [sender |-> sender, text |-> [kind |-> kind, arg |-> arg, names |-> names]]

-----------------------------------------------------------------------------
(* Inputs: what the user can type and what the external service can return *)

PersonNames == {"Alice", "Bob"}

\* pieces of the assignee input between commas, before trimming
Pieces == PersonNames \cup {" Bob", " "}

\* chat inputs: a blank one and a command
ChatInputs == {" ", "split it"}

Nachos == ReceiptItem("Nachos", 1, Num(15))

Coke == ReceiptItem("Coke", 1, Num(5))

\* a receipt whose totals are consistent with its items
RMeal == ReceiptDataOf(<<Nachos, Coke>>, Num(20), Num(2), Num(1), Num(23))

\* two lines share a name
RCokes == ReceiptDataOf(<<ReceiptItem("Coke", 1, Num(2)), ReceiptItem("Coke", 2, Num(4))>>,
                        Num(6), Num(1), Zero, Num(7))

\* a receipt read with subtotal 0, and with a total that is not subtotal + tax + tip
RZero == ReceiptDataOf(<<ReceiptItem("Nachos", 1, Num(6))>>, Zero, Num(1), Num(1), Num(8))

\* a receipt of one line
RSnack == ReceiptDataOf(<<ReceiptItem("Coke", 1, Num(3))>>, Num(3), Num(1), Zero, Num(4))

\* a receipt of one free item: subtotal 0, and a total of tax alone
RFree == ReceiptDataOf(<<ReceiptItem("Water", 1, Zero)>>, Zero, Num(1), Zero, Num(1))

\* receipts whose subtotal is the sum of the prices and whose total is
\* subtotal + tax + tip
ConsistentReceipts == {RMeal, RFree}

\* JSON.parse(response.text) of parseReceipt yields one of these
Receipts == {RMeal, RCokes, RZero}

\* the receipts of the editing sessions
EditReceipts == {RSnack, RZero}

\* Alice holds Nachos, money fields as the proportional rule gives them for RMeal
PropExact ==
    <<PersonSplit("Alice", <<AssignedItem("Nachos", Num(15))>>,
                  Num(15), Rat(3, 2), Rat(3, 4), Rat(69, 4))>>

\* Bob holds Coke, money fields rounded by the service
PropApprox ==
    <<PersonSplit("Bob", <<AssignedItem("Coke", Num(5))>>,
                  Num(5), Num(1), Zero, Num(6))>>

\* Alice holds Nachos; Bob is listed with nothing
PropOrphan ==
    <<PersonSplit("Alice", <<AssignedItem("Nachos", Num(15))>>,
                  Num(15), Rat(3, 2), Rat(3, 4), Rat(69, 4)),
      PersonSplit("Bob", <<>>, Zero, Zero, Zero, Zero)>>

\* Alice is listed twice, once with Nachos and once with Coke
PropTwice ==
    <<PersonSplit("Alice", <<AssignedItem("Nachos", Num(15))>>,
                  Num(15), Rat(3, 2), Rat(3, 4), Rat(69, 4)),
      PersonSplit("Alice", <<AssignedItem("Coke", Num(5))>>,
                  Num(5), Rat(1, 2), Rat(1, 4), Rat(23, 4))>>

\* JSON.parse(response.text) of updateBillSplit yields one of these
Proposals == {<<>>, PropExact, PropApprox, PropOrphan}

ExtractionErrors == {"The AI returned an invalid format. Please try another image."}

InterpretationErrors == {"The AI returned an invalid format. Please try rephrasing your command."}

-----------------------------------------------------------------------------
(* Pure functions *)

\* JSON.parse(JSON.stringify(x)) of a value made of numbers, strings and arrays
RECURSIVE CloneItems(_)
CloneItems(items) ==
    IF items = <<>> THEN <<>>
    ELSE <<ReceiptItem(Head(items).item_name, Head(items).quantity, Head(items).price)>>
         \o CloneItems(Tail(items))

CloneReceipt(data) ==
    ReceiptDataOf(CloneItems(data.items), data.subtotal, data.tax, data.tip, data.total)

\* items.reduce((acc, item) => acc + item.price, 0)
RECURSIVE SumPrices(_)
SumPrices(items) ==
    IF items = <<>> THEN Zero
    ELSE RAdd(SumPrices(SubSeq(items, 1, Len(items) - 1)), items[Len(items)].price)

\* RecalcPerson that keeps the tax and the tip the person came with
RecalcPersonKeepsTax(person, data) ==
    LET subtotal == SumPrices(person.items)
        total == RAdd(RAdd(subtotal, person.tax), person.tip)
    IN  [person EXCEPT !.subtotal = subtotal, !.total = total]

RecalcPerson(person, data) ==
    LET subtotal == SumPrices(person.items)
        taxRatio == RDiv(subtotal, data.subtotal)
        tax == RMul(data.tax, taxRatio)
        tip == RMul(data.tip, taxRatio)
        total == RAdd(RAdd(subtotal, tax), tip)
    IN  [person EXCEPT !.subtotal = subtotal, !.tax = tax, !.tip = tip, !.total = total]

\* recalculateBillSplit that takes the ratio as 0 when data.subtotal is 0
recalculateBillSplitRatioZero(currentSplit, data) ==
    IF data = NULL THEN currentSplit
    ELSE IF data.subtotal = Zero
    THEN [i \in DOMAIN currentSplit |->
            [currentSplit[i] EXCEPT !.subtotal = SumPrices(currentSplit[i].items),
                                    !.tax = Zero, !.tip = Zero,
                                    !.total = SumPrices(currentSplit[i].items)]]
    ELSE [i \in DOMAIN currentSplit |-> RecalcPerson(currentSplit[i], data)]

recalculateBillSplit(currentSplit, data) ==
    IF data = NULL \/ data.subtotal = Zero THEN currentSplit
    ELSE [i \in DOMAIN currentSplit |-> RecalcPerson(currentSplit[i], data)]

\* RemoveItemFromAll that clears the item from the first person only
RemoveItemFromFirstPerson(split, itemName) ==
    [i \in DOMAIN split |->
        IF i = 1
        THEN [split[i] EXCEPT !.items = SelectSeq(@, LAMBDA e : e.item_name # itemName)]
        ELSE split[i]]

\* RemoveItemFromAll that takes one entry of the item from each person
RemoveOneEntryFromAll(split, itemName) ==
    [i \in DOMAIN split |->
        LET items == split[i].items
            hits == {k \in DOMAIN items : items[k].item_name = itemName}
        IN  IF hits = {} THEN split[i]
            ELSE LET k == CHOOSE h \in hits : \A j \in hits : h <= j
                 IN  [split[i] EXCEPT !.items = SubSeq(items, 1, k - 1)
                                                  \o SubSeq(items, k + 1, Len(items))]]

\* tempSplit.forEach(person => person.items = person.items.filter(...))
RemoveItemFromAll(split, itemName) ==
    [i \in DOMAIN split |->
        [split[i] EXCEPT !.items = SelectSeq(@, LAMBDA e : e.item_name # itemName)]]

\* tempSplit.find(p => p.person_name === name): index of the first match, 0 if none
FindPerson(split, name) ==
    IF \E i \in DOMAIN split : split[i].person_name = name
    THEN CHOOSE i \in DOMAIN split :
            /\ split[i].person_name = name
            /\ \A j \in DOMAIN split : split[j].person_name = name => i <= j
    ELSE 0

\* PushItem with unshift in the place of push for a person new to the split
PushItemInFront(split, name, entry) ==
    LET k == FindPerson(split, name)
    IN  IF k = 0
        THEN <<PersonSplit(name, <<entry>>, Zero, Zero, Zero, Zero)>> \o split
        ELSE [split EXCEPT ![k].items = Append(@, entry)]

\* one round of names.forEach(name => ...)
PushItem(split, name, entry) ==
    LET k == FindPerson(split, name)
    IN  IF k = 0
        THEN Append(split, PersonSplit(name, <<entry>>, Zero, Zero, Zero, Zero))
        ELSE [split EXCEPT ![k].items = Append(@, entry)]

RECURSIVE PushItemAll(_, _, _)
PushItemAll(split, names, entry) ==
    IF names = <<>> THEN split
    ELSE PushItemAll(PushItem(split, Head(names), entry), Tail(names), entry)

\* JSON.parse(JSON.stringify(billSplit)) of a BillSplit
CloneSplit(split) ==
    [i \in DOMAIN split |->
        PersonSplit(split[i].person_name,
                    [k \in DOMAIN split[i].items |->
                        AssignedItem(split[i].items[k].item_name,
                                     split[i].items[k].price)],
                    split[i].subtotal, split[i].tax, split[i].tip, split[i].total)]

\* WorkingCopy for let tempSplit = billSplit: the array and the persons of
\* tempSplit are those of billSplit
WorkingAlias(split) == [value |-> split, shared |-> TRUE]

\* tempSplit of handleAssignmentChange: a structure of new objects with the
\* content of billSplit; shared tells whether a write to tempSplit or to one
\* of its persons is a write to billSplit
WorkingCopy(split) == [value |-> CloneSplit(split), shared |-> FALSE]

\* what the array given to handleAssignmentChange holds when the handler has
\* run: person.items = ... and push write to tempSplit and its persons;
\* tempSplit.filter(...) and recalculateBillSplit (map, object spread) build
\* new arrays and new persons and write to nothing that exists
InputAfterAssignment(split, item, names) ==
    LET temp == WorkingCopy(split)
        cleared == RemoveItemFromAll(temp.value, item.item_name)
        pushed == IF Len(names) > 0
                  THEN PushItemAll(cleared, names,
                                   AssignedItem(item.item_name,
                                                RDiv(item.price, Num(Len(names)))))
                  ELSE cleared
    IN  IF temp.shared THEN pushed ELSE split

\* what the array given to recalculateBillSplit holds when it has returned:
\* currentSplit.map(person => ({ ...person, ... })) writes to new objects only
InputAfterRecalculate(currentSplit, data) == currentSplit

\* AssignedSplit with the step that removes the item from everyone left out
AssignedSplitKeepsOld(split, item, names, data) ==
    LET pushed == IF Len(names) > 0
                  THEN PushItemAll(split, names,
                                   AssignedItem(item.item_name,
                                                RDiv(item.price, Num(Len(names)))))
                  ELSE split
        kept == SelectSeq(pushed, LAMBDA p : Len(p.items) > 0)
    IN  recalculateBillSplit(kept, data)

\* AssignedSplit that gives every name the whole price of the item
AssignedSplitWholePrice(split, item, names, data) ==
    LET cleared == RemoveItemFromAll(split, item.item_name)
        pushed == IF Len(names) > 0
                  THEN PushItemAll(cleared, names,
                                   AssignedItem(item.item_name, item.price))
                  ELSE cleared
        kept == SelectSeq(pushed, LAMBDA p : Len(p.items) > 0)
    IN  recalculateBillSplit(kept, data)

\* AssignedSplit that clears the portions of this line only: the entries of
\* the name whose price is the price of the line shared by up to four people
AssignedSplitByLine(split, item, names, data) ==
    LET portions == {RDiv(item.price, Num(n)) : n \in 1..4}
        cleared == [i \in DOMAIN split |->
                       [split[i] EXCEPT !.items =
                           SelectSeq(@, LAMBDA e : ~(e.item_name = item.item_name
                                                      /\ e.price \in portions))]]
        pushed == IF Len(names) > 0
                  THEN PushItemAll(cleared, names,
                                   AssignedItem(item.item_name,
                                                RDiv(item.price, Num(Len(names)))))
                  ELSE cleared
        kept == SelectSeq(pushed, LAMBDA p : Len(p.items) > 0)
    IN  recalculateBillSplit(kept, data)

\* the BillSplit that handleAssignmentChange passes to setBillSplit
AssignedSplit(split, item, names, data) ==
    LET cleared == RemoveItemFromAll(split, item.item_name)
        pushed == IF Len(names) > 0
                  THEN PushItemAll(cleared, names,
                                   AssignedItem(item.item_name,
                                                RDiv(item.price, Num(Len(names)))))
                  ELSE cleared
        kept == SelectSeq(pushed, LAMBDA p : Len(p.items) > 0)
    IN  recalculateBillSplit(kept, data)

\* the message handleAssignmentChange appends to the log
AssignmentMessage(item, names) ==
    IF Len(names) > 0
    THEN ChatMessage("system", "Manually assigned", item.item_name, names)
    ELSE ChatMessage("system", "Manually unassigned", item.item_name, <<>>)

\* String.prototype.trim on the pieces
Trim(s) == CASE s = " Bob" -> "Bob" [] s = " " -> "" [] OTHER -> s

\* assigneeInput.split(',').map(name => name.trim()).filter(Boolean)
ParseNames(pieces) ==
    SelectSeq([i \in DOMAIN pieces |-> Trim(pieces[i])], LAMBDA s : s # "")

\* PeopleHolding without the test people.includes(person.person_name)
RECURSIVE PeopleHoldingRepeats(_, _)
PeopleHoldingRepeats(split, itemName) ==
    IF split = <<>> THEN <<>>
    ELSE LET before == PeopleHoldingRepeats(SubSeq(split, 1, Len(split) - 1), itemName)
             p == split[Len(split)]
             entries == SelectSeq(p.items, LAMBDA e : e.item_name = itemName)
         IN  before \o [k \in DOMAIN entries |-> p.person_name]

\* assignedItemsMap.get(itemName) || []
RECURSIVE PeopleHolding(_, _)
PeopleHolding(split, itemName) ==
    IF split = <<>> THEN <<>>
    ELSE LET before == PeopleHolding(SubSeq(split, 1, Len(split) - 1), itemName)
             p == split[Len(split)]
             holds == \E k \in DOMAIN p.items : p.items[k].item_name = itemName
             listed == \E k \in DOMAIN before : before[k] = p.person_name
         IN  IF holds /\ ~listed THEN Append(before, p.person_name) ELSE before

assignedItemsMap(split) ==
    LET held == UNION {{split[i].items[k].item_name : k \in DOMAIN split[i].items} :
                          i \in DOMAIN split}
    IN  [n \in held |-> PeopleHolding(split, n)]

-----------------------------------------------------------------------------
(* Rendering *)

\* DraftAfterRender with an effect that copies the receipt in Viewing too
DraftAfterRenderAlways(data, editing) ==
    IF data # NULL THEN CloneReceipt(data) ELSE NULL

\* ReceiptDisplay is declared inside ReceiptPanel: every render of ReceiptPanel
\* mounts it anew (only while a receipt is loaded), its state starts as null and
\* its effect then copies the receipt when Editing
DraftAfterRender(data, editing) ==
    IF data # NULL /\ editing THEN CloneReceipt(data) ELSE NULL

WelcomeMessage == ChatMessage("system", "Receipt loaded!", "", <<>>)

\* ChatPanel effect, run when receiptData has changed
ChatAfterReceiptChange(data, log) ==
    IF data # NULL
    THEN IF Len(log) = 0 THEN <<WelcomeMessage>> ELSE log
    ELSE <<>>

-----------------------------------------------------------------------------
(* External calls *)

Call(kind) == [kind |-> kind, stale |-> FALSE]

\* a session reset happened while these calls were unsettled
MarkStale(calls) == [i \in DOMAIN calls |-> [calls[i] EXCEPT !.stale = TRUE]]

Settled(calls, i) == SubSeq(calls, 1, i - 1) \o SubSeq(calls, i + 1, Len(calls))

-----------------------------------------------------------------------------
(* History *)

NoItem == ReceiptItem("", 0, Zero)

\* kind: the operation; item, names: the arguments of a manual assignment;
\* split: the BillSplit the operation was given (the proposal of the service) or
\* replaced (a Commit); stale: the call that settled was started before a reset
Op(kind, item, names, split, stale) ==
    [kind |-> kind, item |-> item, names |-> names, split |-> split,
     stale |-> stale]

PlainOp(kind) == Op(kind, NoItem, <<>>, <<>>, FALSE)

-----------------------------------------------------------------------------
(* Initial state: useState defaults of App, ReceiptPanel and ReceiptDisplay *)

Init ==
    /\ receiptData = NULL
    /\ billSplit = <<>>
    /\ chatMessages = <<>>
    /\ isLoading = FALSE
    /\ error = NoError
    /\ isReceiptEditing = FALSE
    /\ editingReceiptData = NULL
    /\ pending = <<>>
    /\ nDraftEdits = 0
    /\ preEditReceipt = NULL
    /\ lastOp = PlainOp("init")

-----------------------------------------------------------------------------
(* Upload and extraction *)

\* the Select Image button is rendered when no receipt is loaded and is
\* disabled while isLoading
handleFileChange ==
    /\ receiptData = NULL
    /\ ~isLoading
    /\ Len(pending) < MaxCalls
    /\ receiptData' = NULL
    /\ billSplit' = <<>>
    /\ chatMessages' = <<>>
    /\ isLoading' = TRUE
    /\ error' = NoError
    /\ isReceiptEditing' = FALSE
    /\ editingReceiptData' = NULL
    /\ pending' = Append(MarkStale(pending), Call("extract"))
    /\ lastOp' = PlainOp("upload")
    /\ UNCHANGED <<nDraftEdits, preEditReceipt>>

\* parseReceipt resolves: setReceiptData(parsedData), finally setIsLoading(false)
ExtractionResolved(i, parsedData) ==
    /\ i \in DOMAIN pending
    /\ pending[i].kind = "extract"
    /\ receiptData' = parsedData
    /\ isLoading' = FALSE
    /\ chatMessages' = ChatAfterReceiptChange(parsedData, chatMessages)
    /\ editingReceiptData' = DraftAfterRender(parsedData, isReceiptEditing)
    /\ pending' = Settled(pending, i)
    /\ lastOp' = Op("extracted", NoItem, <<>>, <<>>, pending[i].stale)
    /\ UNCHANGED <<billSplit, error, isReceiptEditing, nDraftEdits,
                   preEditReceipt>>

\* parseReceipt rejects: setError(err.message), finally setIsLoading(false);
\* App renders again only if one of the two values changed
ExtractionRejected(i, message) ==
    /\ i \in DOMAIN pending
    /\ pending[i].kind = "extract"
    /\ error' = message
    /\ isLoading' = FALSE
    /\ editingReceiptData' = IF error # message \/ isLoading
                             THEN DraftAfterRender(receiptData, isReceiptEditing)
                             ELSE editingReceiptData
    /\ pending' = Settled(pending, i)
    /\ lastOp' = Op("extraction failed", NoItem, <<>>, <<>>, pending[i].stale)
    /\ UNCHANGED <<receiptData, billSplit, chatMessages, isReceiptEditing,
                   nDraftEdits, preEditReceipt>>

-----------------------------------------------------------------------------
(* Chat *)

\* handleSendMessage with an input that stays enabled while Editing
handleSendMessageWhileEditing(input) ==
    /\ Trim(input) # ""
    /\ receiptData # NULL
    /\ ~isLoading
    /\ Len(chatMessages) < MaxLog
    /\ Len(pending) < MaxCalls
    /\ chatMessages' = Append(chatMessages, ChatMessage("user", "", input, <<>>))
    /\ isLoading' = TRUE
    /\ error' = NoError
    /\ pending' = Append(pending, Call("interpret"))
    /\ editingReceiptData' = DraftAfterRender(receiptData, isReceiptEditing)
    /\ lastOp' = PlainOp("send")
    /\ UNCHANGED <<receiptData, billSplit, isReceiptEditing, nDraftEdits, preEditReceipt>>

\* handleSendMessage without the test of isLoading
handleSendMessageWhileBusy(input) ==
    /\ Trim(input) # ""
    /\ receiptData # NULL
    /\ ~isReceiptEditing
    /\ Len(chatMessages) < MaxLog
    /\ Len(pending) < MaxCalls
    /\ chatMessages' = Append(chatMessages, ChatMessage("user", "", input, <<>>))
    /\ isLoading' = TRUE
    /\ error' = NoError
    /\ pending' = Append(pending, Call("interpret"))
    /\ editingReceiptData' = DraftAfterRender(receiptData, isReceiptEditing)
    /\ lastOp' = PlainOp("send")
    /\ UNCHANGED <<receiptData, billSplit, isReceiptEditing, nDraftEdits, preEditReceipt>>

\* the input and the send button are disabled when no receipt is loaded, when
\* Editing and while isLoading; the handler returns early on blank input
handleSendMessage(input) ==
    /\ Trim(input) # ""
    /\ receiptData # NULL
    /\ ~isLoading
    /\ ~isReceiptEditing
    /\ Len(chatMessages) < MaxLog
    /\ Len(pending) < MaxCalls
    /\ chatMessages' = Append(chatMessages, ChatMessage("user", "", input, <<>>))
    /\ isLoading' = TRUE
    /\ error' = NoError
    /\ pending' = Append(pending, Call("interpret"))
    /\ editingReceiptData' = DraftAfterRender(receiptData, isReceiptEditing)
    /\ lastOp' = PlainOp("send")
    /\ UNCHANGED <<receiptData, billSplit, isReceiptEditing, nDraftEdits, preEditReceipt>>

\* InterpretationResolved that also drops the Receipt
InterpretationResolvedDropsReceipt(i, updatedSplit) ==
    /\ i \in DOMAIN pending
    /\ pending[i].kind = "interpret"
    /\ billSplit' = updatedSplit
    /\ isLoading' = FALSE
    /\ receiptData' = NULL
    /\ chatMessages' = ChatAfterReceiptChange(NULL, chatMessages)
    /\ editingReceiptData' = DraftAfterRender(NULL, isReceiptEditing)
    /\ pending' = Settled(pending, i)
    /\ lastOp' = Op("split updated", NoItem, <<>>, updatedSplit, pending[i].stale)
    /\ UNCHANGED <<error, isReceiptEditing, nDraftEdits, preEditReceipt>>

\* updateBillSplit resolves: setBillSplit(updatedSplit), finally setIsLoading(false)
InterpretationResolved(i, updatedSplit) ==
    /\ i \in DOMAIN pending
    /\ pending[i].kind = "interpret"
    /\ billSplit' = updatedSplit
    /\ isLoading' = FALSE
    /\ editingReceiptData' = DraftAfterRender(receiptData, isReceiptEditing)
    /\ pending' = Settled(pending, i)
    /\ lastOp' = Op("split updated", NoItem, <<>>, updatedSplit, pending[i].stale)
    /\ UNCHANGED <<receiptData, chatMessages, error, isReceiptEditing,
                   nDraftEdits, preEditReceipt>>

\* InterpretationRejected that also empties the BillSplit
InterpretationRejectedClearsSplit(i, message) ==
    /\ i \in DOMAIN pending
    /\ pending[i].kind = "interpret"
    /\ Len(chatMessages) < MaxLog
    /\ error' = message
    /\ chatMessages' = Append(chatMessages, ChatMessage("system", "Error: ", message, <<>>))
    /\ isLoading' = FALSE
    /\ billSplit' = <<>>
    /\ editingReceiptData' = DraftAfterRender(receiptData, isReceiptEditing)
    /\ pending' = Settled(pending, i)
    /\ lastOp' = Op("split update failed", NoItem, <<>>, <<>>, pending[i].stale)
    /\ UNCHANGED <<receiptData, isReceiptEditing, nDraftEdits, preEditReceipt>>

\* updateBillSplit rejects: setError, a system entry is appended, finally
\* setIsLoading(false)
InterpretationRejected(i, message) ==
    /\ i \in DOMAIN pending
    /\ pending[i].kind = "interpret"
    /\ Len(chatMessages) < MaxLog
    /\ error' = message
    /\ chatMessages' = Append(chatMessages, ChatMessage("system", "Error: ", message, <<>>))
    /\ isLoading' = FALSE
    /\ editingReceiptData' = DraftAfterRender(receiptData, isReceiptEditing)
    /\ pending' = Settled(pending, i)
    /\ lastOp' = Op("split update failed", NoItem, <<>>, <<>>, pending[i].stale)
    /\ UNCHANGED <<receiptData, billSplit, isReceiptEditing, nDraftEdits, preEditReceipt>>

-----------------------------------------------------------------------------
(* Manual assignment: the rows of ReceiptDisplay while Viewing *)

RowsShown == receiptData # NULL /\ ~isReceiptEditing

\* handleAssignmentChange that writes nothing to the log
handleAssignmentChangeSilent(item, names) ==
    /\ billSplit' = AssignedSplit(billSplit, item, names, receiptData)
    /\ chatMessages' = chatMessages

\* setBillSplit(finalSplit) and the system entry of handleAssignmentChange
handleAssignmentChange(item, names) ==
    /\ billSplit' = AssignedSplit(billSplit, item, names, receiptData)
    /\ chatMessages' = Append(chatMessages, AssignmentMessage(item, names))

\* Save button of the assignee input of row index (editingIndex), pieces being
\* the text typed into it (assigneeInput)
handleSaveAssignment(index, pieces) ==
    /\ RowsShown
    /\ index \in DOMAIN receiptData.items
    /\ Len(chatMessages) < MaxLog
    /\ LET item == receiptData.items[index]
           names == ParseNames(pieces)
       IN  /\ handleAssignmentChange(item, names)
           /\ lastOp' = Op("assign", item, names, <<>>, FALSE)
    /\ editingReceiptData' = DraftAfterRender(receiptData, isReceiptEditing)
    /\ UNCHANGED <<receiptData, isLoading, error, isReceiptEditing, pending,
                   nDraftEdits, preEditReceipt>>

\* X button of an assigned row
handleUnassignItem(index) ==
    /\ RowsShown
    /\ index \in DOMAIN receiptData.items
    /\ receiptData.items[index].item_name \in DOMAIN assignedItemsMap(billSplit)
    /\ Len(chatMessages) < MaxLog
    /\ LET item == receiptData.items[index]
       IN  /\ handleAssignmentChange(item, <<>>)
           /\ lastOp' = Op("assign", item, <<>>, <<>>, FALSE)
    /\ editingReceiptData' = DraftAfterRender(receiptData, isReceiptEditing)
    /\ UNCHANGED <<receiptData, isLoading, error, isReceiptEditing, pending, nDraftEdits, preEditReceipt>>

-----------------------------------------------------------------------------
(* Receipt edit transaction *)

\* values typed into the fields of the draft
ItemNameValues == {"Tea"}

QuantityValues == {2}

PriceValues == {Num(4)}

AggregateValues == {Num(10)}

\* AutoTotal left out: the total stays as it was
AutoTotalKept(newData) == newData

\* newData.total = (newData.subtotal || 0) + (newData.tax || 0) + (newData.tip || 0)
AutoTotal(newData) ==
    [newData EXCEPT !.total = RAdd(RAdd(newData.subtotal, newData.tax), newData.tip)]

\* handleReceiptEdit(`items.${index}.${key}`, value)
EditedItemField(draft, index, key, value) ==
    AutoTotal([CloneReceipt(draft) EXCEPT !.items[index][key] = value])

\* handleReceiptEdit(field, value) for a field of the receipt itself
EditedField(draft, field, value) ==
    AutoTotal([CloneReceipt(draft) EXCEPT ![field] = value])

NewItem == ReceiptItem("", 1, Zero)

\* editingReceiptData.items.filter((_, i) => i !== index)
WithoutItem(items, index) ==
    SubSeq(items, 1, index - 1) \o SubSeq(items, index + 1, Len(items))

\* EnterEditing without a Receipt being shown
EnterEditingAnytime ==
    /\ ~isReceiptEditing
    /\ isReceiptEditing' = TRUE
    /\ editingReceiptData' = DraftAfterRender(receiptData, TRUE)
    /\ preEditReceipt' = receiptData
    /\ lastOp' = PlainOp("enter editing")
    /\ UNCHANGED <<receiptData, billSplit, chatMessages, isLoading, error,
                   pending, nDraftEdits>>

\* Edit Receipt button
EnterEditing ==
    /\ RowsShown
    /\ isReceiptEditing' = TRUE
    /\ editingReceiptData' = DraftAfterRender(receiptData, TRUE)
    /\ preEditReceipt' = receiptData
    /\ lastOp' = PlainOp("enter editing")
    /\ UNCHANGED <<receiptData, billSplit, chatMessages, isLoading, error,
                   pending, nDraftEdits>>

DraftShown ==
    /\ receiptData # NULL
    /\ isReceiptEditing
    /\ editingReceiptData # NULL

DraftMutation(newData) ==
    /\ DraftShown
    /\ nDraftEdits < MaxDraftEdits
    /\ editingReceiptData' = newData
    /\ nDraftEdits' = nDraftEdits + 1
    /\ lastOp' = PlainOp("draft mutation")
    /\ UNCHANGED <<appVars, pending, preEditReceipt>>

EditItemName(index, value) ==
    /\ DraftShown
    /\ index \in DOMAIN editingReceiptData.items
    /\ DraftMutation(EditedItemField(editingReceiptData, index, "item_name", value))

EditItemQuantity(index, value) ==
    /\ DraftShown
    /\ index \in DOMAIN editingReceiptData.items
    /\ DraftMutation(EditedItemField(editingReceiptData, index, "quantity", value))

EditItemPrice(index, value) ==
    /\ DraftShown
    /\ index \in DOMAIN editingReceiptData.items
    /\ DraftMutation(EditedItemField(editingReceiptData, index, "price", value))

EditAggregate(field, value) ==
    /\ DraftShown
    /\ DraftMutation(EditedField(editingReceiptData, field, value))

handleAddItem ==
    /\ DraftShown
    /\ Len(editingReceiptData.items) < MaxItems
    /\ DraftMutation(EditedField(editingReceiptData, "items",
                                 Append(editingReceiptData.items, NewItem)))

handleRemoveItem(index) ==
    /\ DraftShown
    /\ index \in DOMAIN editingReceiptData.items
    /\ DraftMutation(EditedField(editingReceiptData, "items",
                                 WithoutItem(editingReceiptData.items, index)))

UpdatedNotice == ChatMessage("system", "Receipt updated.", "", <<>>)

\* handleSaveReceipt that leaves the Receipt as it is
handleSaveReceiptDropsDraft(confirmed) ==
    /\ DraftShown
    /\ IF confirmed
       THEN /\ billSplit' = <<>>
            /\ chatMessages' = ChatAfterReceiptChange(receiptData, <<UpdatedNotice>>)
            /\ isReceiptEditing' = FALSE
            /\ editingReceiptData' = DraftAfterRender(receiptData, FALSE)
            /\ preEditReceipt' = NULL
            /\ lastOp' = Op("commit", NoItem, <<>>, billSplit, FALSE)
            /\ UNCHANGED <<receiptData, isLoading, error, pending, nDraftEdits>>
       ELSE /\ lastOp' = PlainOp("commit declined")
            /\ UNCHANGED <<appVars, editingReceiptData, pending,
                           nDraftEdits, preEditReceipt>>

\* handleSaveReceipt with setBillSplit([]) left out
handleSaveReceiptKeepsSplit(confirmed) ==
    /\ DraftShown
    /\ IF confirmed
       THEN /\ receiptData' = editingReceiptData
            /\ chatMessages' = ChatAfterReceiptChange(editingReceiptData, <<UpdatedNotice>>)
            /\ isReceiptEditing' = FALSE
            /\ editingReceiptData' = DraftAfterRender(editingReceiptData, FALSE)
            /\ preEditReceipt' = NULL
            /\ lastOp' = Op("commit", NoItem, <<>>, billSplit, FALSE)
            /\ UNCHANGED <<billSplit, isLoading, error, pending, nDraftEdits>>
       ELSE /\ lastOp' = PlainOp("commit declined")
            /\ UNCHANGED <<appVars, editingReceiptData, pending,
                           nDraftEdits, preEditReceipt>>

\* Save Receipt button; confirmed is the answer to window.confirm
handleSaveReceipt(confirmed) ==
    /\ DraftShown
    /\ IF confirmed
       THEN /\ receiptData' = editingReceiptData
            /\ billSplit' = <<>>
            /\ chatMessages' = ChatAfterReceiptChange(editingReceiptData, <<UpdatedNotice>>)
            /\ isReceiptEditing' = FALSE
            /\ editingReceiptData' = DraftAfterRender(editingReceiptData, FALSE)
            /\ preEditReceipt' = NULL
            /\ lastOp' = Op("commit", NoItem, <<>>, billSplit, FALSE)
            /\ UNCHANGED <<isLoading, error, pending, nDraftEdits>>
       ELSE /\ lastOp' = PlainOp("commit declined")
            /\ UNCHANGED <<appVars, editingReceiptData, pending,
                           nDraftEdits, preEditReceipt>>

\* Cancel Edit button: setIsReceiptEditing(false)
CancelEditing ==
    /\ receiptData # NULL
    /\ isReceiptEditing
    /\ isReceiptEditing' = FALSE
    /\ editingReceiptData' = DraftAfterRender(receiptData, FALSE)
    /\ preEditReceipt' = NULL
    /\ lastOp' = PlainOp("cancel editing")
    /\ UNCHANGED <<receiptData, billSplit, chatMessages, isLoading, error,
                   pending, nDraftEdits>>

-----------------------------------------------------------------------------
(* Session reset *)

\* handleStartNewTab with a resetState that leaves isLoading as it is
handleStartNewTabKeepsBusy(confirmed) ==
    /\ receiptData # NULL
    /\ IF confirmed
       THEN /\ receiptData' = NULL
            /\ billSplit' = <<>>
            /\ chatMessages' = ChatAfterReceiptChange(NULL, <<>>)
            /\ error' = NoError
            /\ isReceiptEditing' = FALSE
            /\ editingReceiptData' = DraftAfterRender(NULL, FALSE)
            /\ pending' = MarkStale(pending)
            /\ preEditReceipt' = NULL
            /\ lastOp' = PlainOp("new tab")
            /\ UNCHANGED <<isLoading, nDraftEdits>>
       ELSE /\ lastOp' = PlainOp("new tab declined")
            /\ UNCHANGED <<appVars, editingReceiptData, pending,
                           nDraftEdits, preEditReceipt>>

\* handleStartNewTab that resets whatever the answer is
handleStartNewTabAlways(confirmed) ==
    /\ receiptData # NULL
    /\ receiptData' = NULL
    /\ billSplit' = <<>>
    /\ chatMessages' = ChatAfterReceiptChange(NULL, <<>>)
    /\ isLoading' = FALSE
    /\ error' = NoError
    /\ isReceiptEditing' = FALSE
    /\ editingReceiptData' = DraftAfterRender(NULL, FALSE)
    /\ pending' = MarkStale(pending)
    /\ preEditReceipt' = NULL
    /\ lastOp' = PlainOp(IF confirmed THEN "new tab" ELSE "new tab declined")
    /\ UNCHANGED nDraftEdits

\* Start New Tab button, rendered while a receipt is loaded
handleStartNewTab(confirmed) ==
    /\ receiptData # NULL
    /\ IF confirmed
       THEN /\ receiptData' = NULL
            /\ billSplit' = <<>>
            /\ chatMessages' = ChatAfterReceiptChange(NULL, <<>>)
            /\ isLoading' = FALSE
            /\ error' = NoError
            /\ isReceiptEditing' = FALSE
            /\ editingReceiptData' = DraftAfterRender(NULL, FALSE)
            /\ pending' = MarkStale(pending)
            /\ preEditReceipt' = NULL
            /\ lastOp' = PlainOp("new tab")
            /\ UNCHANGED nDraftEdits
       ELSE /\ lastOp' = PlainOp("new tab declined")
            /\ UNCHANGED <<appVars, editingReceiptData, pending,
                           nDraftEdits, preEditReceipt>>

-----------------------------------------------------------------------------

PieceSeqs == UNION {[1..n -> Pieces] : n \in 0..MaxPieces}

AggregateFields == {"subtotal", "tax", "tip"}

\* upload, chat and the settling of the external calls
CallStep(receipts, proposals) ==
    \/ handleFileChange
    \/ \E i \in 1..MaxCalls, r \in receipts : ExtractionResolved(i, r)
    \/ \E i \in 1..MaxCalls, m \in ExtractionErrors : ExtractionRejected(i, m)
    \/ \E input \in ChatInputs : handleSendMessage(input)
    \/ \E i \in 1..MaxCalls, p \in proposals : InterpretationResolved(i, p)
    \/ \E i \in 1..MaxCalls, m \in InterpretationErrors : InterpretationRejected(i, m)

AssignStep ==
    \/ \E index \in 1..MaxItems, pieces \in PieceSeqs : handleSaveAssignment(index, pieces)
    \/ \E index \in 1..MaxItems : handleUnassignItem(index)

TransactionStep ==
    \/ EnterEditing
    \/ \E c \in BOOLEAN : handleSaveReceipt(c)
    \/ CancelEditing

DraftStep ==
    \/ \E index \in 1..MaxItems, v \in ItemNameValues : EditItemName(index, v)
    \/ \E index \in 1..MaxItems, v \in QuantityValues : EditItemQuantity(index, v)
    \/ \E index \in 1..MaxItems, v \in PriceValues : EditItemPrice(index, v)
    \/ \E f \in AggregateFields, v \in AggregateValues : EditAggregate(f, v)
    \/ handleAddItem
    \/ \E index \in 1..MaxItems : handleRemoveItem(index)

ResetStep == \E c \in BOOLEAN : handleStartNewTab(c)

\* the whole program
Next == CallStep(Receipts \cup EditReceipts, Proposals) \/ AssignStep \/ TransactionStep \/ DraftStep \/ ResetStep

Spec == Init /\ [][Next]_vars

\* the program with a user who uploads one receipt and splits it, by chat and by hand
NextSplit == CallStep(Receipts, Proposals) \/ AssignStep

SpecSplit == Init /\ [][NextSplit]_vars

\* the program with a user who edits the receipt and assigns nothing by hand
NextEdit == CallStep(EditReceipts, {PropApprox}) \/ TransactionStep \/ DraftStep \/ ResetStep

SpecEdit == Init /\ [][NextEdit]_vars

\* the program with a user who uploads a consistent receipt and splits it
NextTotal == CallStep(ConsistentReceipts, {PropExact}) \/ AssignStep

SpecTotal == Init /\ [][NextTotal]_vars

\* the program with a service that lists one person twice
NextNames == CallStep({RMeal}, {PropTwice}) \/ AssignStep

SpecNames == Init /\ [][NextNames]_vars

-----------------------------------------------------------------------------
(* Properties *)

\* sum of the portions named itemName, over all persons
RECURSIVE PortionsOf(_, _)
PortionsOf(split, itemName) ==
    IF split = <<>> THEN Zero
    ELSE RAdd(PortionsOf(Tail(split), itemName),
              SumPrices(SelectSeq(Head(split).items,
                                  LAMBDA e : e.item_name = itemName)))

\* number of entries named itemName that the persons called name hold
EntriesOf(split, name, itemName) ==
    Cardinality(UNION {{<<i, k>> : k \in {j \in DOMAIN split[i].items :
                                            split[i].items[j].item_name = itemName}} :
                       i \in {h \in DOMAIN split : split[h].person_name = name}})

Assigned == lastOp.kind = "assign" /\ Len(lastOp.names) > 0

\* C1: after a manual assignment to a non-empty list of names, the portions of
\* the assigned item, summed over all persons, equal the price of the item
C1_Conservation ==
    Assigned => PortionsOf(billSplit, lastOp.item.item_name) = lastOp.item.price

\* a reassignment to two different people, one of whom holds another item too
C1_Witness ==
    /\ Assigned
    /\ Len(lastOp.names) = 2
    /\ lastOp.names[1] # lastOp.names[2]
    /\ \E i \in DOMAIN billSplit : Len(billSplit[i].items) = 2

\* C2: every person's subtotal is the sum of the portions held, total is
\* subtotal + tax + tip, and tax and tip are the receipt's tax and tip in the
\* proportion subtotal / receipt.subtotal when receipt.subtotal is not 0
C2_MoneyFields ==
    \A i \in DOMAIN billSplit :
        LET p == billSplit[i]
        IN  /\ p.subtotal = SumPrices(p.items)
            /\ p.total = RAdd(RAdd(p.subtotal, p.tax), p.tip)
            /\ (receiptData # NULL /\ receiptData.subtotal # Zero) =>
                  /\ p.tax = RDiv(RMul(receiptData.tax, p.subtotal), receiptData.subtotal)
                  /\ p.tip = RDiv(RMul(receiptData.tip, p.subtotal), receiptData.subtotal)

\* C3: the BillSplit stored when an interpretation call returns is the proposal
\* with the money fields recomputed from the receipt
C3_MergeRecomputes ==
    lastOp.kind = "split updated" =>
        billSplit = recalculateBillSplit(lastOp.split, receiptData)

\* C4: after a manual assignment or an accepted split update nobody in the
\* BillSplit has an empty list of items
C4_NoOrphans ==
    lastOp.kind \in {"assign", "split updated"} =>
        \A i \in DOMAIN billSplit : Len(billSplit[i].items) > 0

\* C5: when a call that was started before a session reset settles, Receipt,
\* BillSplit and Conversation Log stay as they are
C5_StaleDiscarded ==
    [][lastOp'.stale => UNCHANGED <<receiptData, billSplit, chatMessages>>]_vars

\* C6: at most one external call is unsettled
C6_AtMostOneCall == Len(pending) <= 1

\* C7: after a confirmed Commit the BillSplit is empty and the Conversation Log
\* holds one entry, a system notice
C7_CommitCascade ==
    lastOp.kind = "commit" =>
        /\ billSplit = <<>>
        /\ Len(chatMessages) = 1
        /\ chatMessages[1].sender = "system"

\* a Commit of a mutated draft that replaced a BillSplit with people in it
C7_Witness ==
    /\ lastOp.kind = "commit"
    /\ lastOp.split # <<>>
    /\ nDraftEdits > 0
    /\ receiptData \notin EditReceipts

\* C8: while Editing, the Receipt is the Receipt Editing was entered with
C8_TransactionIsolation == isReceiptEditing => receiptData = preEditReceipt

\* C9: Cancel leads to Viewing with the Receipt Editing was entered with, no
\* draft, and BillSplit, Conversation Log, busy flag and error as they were
C9_CancelRestores ==
    [][lastOp'.kind = "cancel editing" =>
          /\ ~isReceiptEditing'
          /\ receiptData' = preEditReceipt
          /\ editingReceiptData' = NULL
          /\ UNCHANGED <<billSplit, chatMessages, isLoading, error>>]_vars

\* C10: after a manual assignment each of the given names holds exactly one
\* entry of the assigned item
C10_DuplicatesCollapsed ==
    Assigned =>
        \A k \in DOMAIN lastOp.names :
            EntriesOf(billSplit, lastOp.names[k], lastOp.item.item_name) = 1

\* names of the persons who hold an entry named itemName
Holders(split, itemName) ==
    {split[i].person_name :
        i \in {h \in DOMAIN split :
                  \E k \in DOMAIN split[h].items :
                      split[h].items[k].item_name = itemName}}

Range(seq) == {seq[k] : k \in DOMAIN seq}

\* C11: after a manual assignment or unassignment of an item, the persons who
\* hold an entry of that item are exactly the given names
C11_NoStaleReferences ==
    lastOp.kind = "assign" =>
        Holders(billSplit, lastOp.item.item_name) = Range(lastOp.names)

\* an item assigned by hand and then reassigned by hand, away from somebody
C11_Witness ==
    /\ lastOp.kind = "assign"
    /\ Len(chatMessages) = 3
    /\ chatMessages[2].text.kind = "Manually assigned"
    /\ chatMessages[3].text.kind = "Manually assigned"
    /\ chatMessages[2].text.arg = chatMessages[3].text.arg
    /\ Range(chatMessages[2].text.names) \ Range(chatMessages[3].text.names) # {}
    /\ billSplit # <<>>

\* C12: for the BillSplit at hand and every item of the receipt, unassigning
\* the item twice gives the BillSplit that unassigning it once gives
C12_IdempotentUnassign ==
    receiptData # NULL =>
        \A index \in DOMAIN receiptData.items :
            LET item == receiptData.items[index]
                once == AssignedSplit(billSplit, item, <<>>, receiptData)
            IN  AssignedSplit(once, item, <<>>, receiptData) = once

\* an unassignment has left people in the BillSplit, one of them with two
\* entries of one item, and unassigning that item changes the BillSplit
C12_Witness ==
    /\ lastOp.kind = "assign"
    /\ lastOp.names = <<>>
    /\ receiptData # NULL
    /\ \E index \in DOMAIN receiptData.items, i \in DOMAIN billSplit :
          /\ EntriesOf(billSplit, billSplit[i].person_name,
                       receiptData.items[index].item_name) = 2
          /\ AssignedSplit(billSplit, receiptData.items[index], <<>>, receiptData)
                # billSplit

\* the money fields of person p as the proportional rule gives them for data
Proportional(p, data) ==
    /\ p.subtotal = SumPrices(p.items)
    /\ p.tax = RDiv(RMul(data.tax, p.subtotal), data.subtotal)
    /\ p.tip = RDiv(RMul(data.tip, p.subtotal), data.subtotal)
    /\ p.total = RAdd(RAdd(p.subtotal, p.tax), p.tip)

\* C13: after a manual assignment on a receipt with subtotal not 0, every
\* person's subtotal is the sum of the portions held, tax and tip are the
\* receipt's in the proportion subtotal / receipt.subtotal and total is their
\* sum, whatever the money fields were before; and a person holding 25 of a
\* receipt with subtotal 100, tax 10, tip 5 gets tax 2.5, tip 1.25, total 28.75
C13_Proportionality ==
    /\ (lastOp.kind = "assign" /\ receiptData # NULL /\ receiptData.subtotal # Zero) =>
          \A i \in DOMAIN billSplit : Proportional(billSplit[i], receiptData)
    /\ recalculateBillSplit(
          <<PersonSplit("Alice", <<AssignedItem("Nachos", Num(25))>>,
                        Num(7), Num(7), Num(7), Num(7))>>,
          ReceiptDataOf(<<>>, Num(100), Num(10), Num(5), Num(115)))
       = <<PersonSplit("Alice", <<AssignedItem("Nachos", Num(25))>>,
                       Num(25), Rat(5, 2), Rat(5, 4), Rat(115, 4))>>

\* Bob came from the service with tax 1 and tip 0 for Coke on RMeal; after
\* Nachos was assigned by hand Bob has tax 1/2 and tip 1/4
C13_Witness ==
    /\ lastOp.kind = "assign"
    /\ lastOp.item.item_name = "Nachos"
    /\ receiptData = RMeal
    /\ \E i \in DOMAIN billSplit :
          billSplit[i] = PersonSplit("Bob", <<AssignedItem("Coke", Num(5))>>,
                                     Num(5), Rat(1, 2), Rat(1, 4), Rat(23, 4))

\* C14: a manual assignment on a receipt with subtotal 0 stores the split as
\* the assignment built it, with the money fields of every person untouched
C14_DegeneratePassThrough ==
    [][(lastOp'.kind = "assign" /\ receiptData # NULL /\ receiptData.subtotal = Zero) =>
          billSplit' = AssignedSplit(billSplit, lastOp'.item, lastOp'.names, NULL)]_vars

\* on a receipt with subtotal 0 an assignment has left one person with the
\* money fields the service gave and another with the zeros of a new person
C14_Witness ==
    /\ lastOp.kind = "assign"
    /\ receiptData # NULL
    /\ receiptData.subtotal = Zero
    /\ \E i \in DOMAIN billSplit : billSplit[i].tax # Zero
    /\ \E i \in DOMAIN billSplit :
          billSplit[i].subtotal = Zero /\ SumPrices(billSplit[i].items) # Zero

RECURSIVE SumTotals(_)
SumTotals(split) ==
    IF split = <<>> THEN Zero ELSE RAdd(SumTotals(Tail(split)), Head(split).total)

NoRepeats(seq) == \A j, k \in DOMAIN seq : seq[j] = seq[k] => j = k

\* subtotal is the sum of the prices of items with distinct names, total is
\* subtotal + tax + tip
Consistent(data) ==
    /\ NoRepeats([k \in DOMAIN data.items |-> data.items[k].item_name])
    /\ data.subtotal = SumPrices(data.items)
    /\ data.total = RAdd(RAdd(data.subtotal, data.tax), data.tip)

\* since the receipt was loaded there were only manual assignments, each to a
\* non-empty list of distinct names, and every item is held by somebody
AllAssignedByHand ==
    /\ receiptData # NULL
    /\ pending = <<>>
    /\ \A k \in DOMAIN chatMessages :
          \/ chatMessages[k] = WelcomeMessage
          \/ /\ chatMessages[k].sender = "system"
             /\ chatMessages[k].text.kind = "Manually assigned"
             /\ NoRepeats(chatMessages[k].text.names)
    /\ \A index \in DOMAIN receiptData.items :
          Holders(billSplit, receiptData.items[index].item_name) # {}

\* C15 as stated: on a consistent receipt, once every item is assigned by
\* hand, the totals of the persons add up to the total of the receipt
C15_TotalConsistency ==
    (AllAssignedByHand /\ Consistent(receiptData)) =>
        SumTotals(billSplit) = receiptData.total

\* C15, for receipts with subtotal not 0: on a consistent receipt, once every
\* item is assigned by hand, the totals of the persons add up to the total of
\* the receipt
C15_TotalConsistencyNonZero ==
    (AllAssignedByHand /\ Consistent(receiptData) /\ receiptData.subtotal # Zero) =>
        SumTotals(billSplit) = receiptData.total

\* both items of RMeal are assigned, the last one to two people
C15_Witness ==
    /\ AllAssignedByHand
    /\ receiptData = RMeal
    /\ lastOp.kind = "assign"
    /\ Len(lastOp.names) = 2
    /\ Len(billSplit) = 2

C17_ExtractionFailure ==
    [][/\ lastOp'.kind = "upload" =>
             UNCHANGED <<receiptData, billSplit, chatMessages>>
       /\ lastOp'.kind = "extraction failed" =>
             /\ UNCHANGED <<receiptData, billSplit, chatMessages>>
             /\ error' \in ExtractionErrors
             /\ ~isLoading']_vars

\* C18: a declined confirmation, of a Commit or of Start New Tab, changes none
\* of Receipt, draft, BillSplit, Conversation Log, busy flag, error and the
\* Viewing/Editing state
C18_DeclinedConfirmation ==
    [][lastOp'.kind \in {"commit declined", "new tab declined"} =>
          UNCHANGED <<receiptData, editingReceiptData, billSplit, chatMessages,
                      isLoading, error, isReceiptEditing>>]_vars

\* Start New Tab was declined while Editing, and the mutated draft is still there
C18_Witness ==
    /\ lastOp.kind = "new tab declined"
    /\ isReceiptEditing
    /\ editingReceiptData # NULL
    /\ editingReceiptData # receiptData
    /\ chatMessages # <<>>

\* C19: after a draft mutation the total of the draft is subtotal + tax + tip
C19_DerivedDraftTotal ==
    lastOp.kind = "draft mutation" =>
        /\ editingReceiptData # NULL
        /\ editingReceiptData.total =
              RAdd(RAdd(editingReceiptData.subtotal, editingReceiptData.tax),
                   editingReceiptData.tip)

\* the receipt was read with total 8 for subtotal 0, tax 1, tip 1; a mutation
\* that touched none of the three has made the total of the draft 2
C19_Witness ==
    /\ lastOp.kind = "draft mutation"
    /\ receiptData = RZero
    /\ editingReceiptData # NULL
    /\ editingReceiptData.items # RZero.items
    /\ editingReceiptData.subtotal = Zero
    /\ editingReceiptData.total = Num(2)

\* C20: after a confirmed Commit the total of the Receipt is
\* subtotal + tax + tip
C20_CommittedTotal ==
    lastOp.kind = "commit" =>
        receiptData.total =
            RAdd(RAdd(receiptData.subtotal, receiptData.tax), receiptData.tip)

\* C21: outside Editing there is no draft
C21_NoDraftOutsideEditing == ~isReceiptEditing => editingReceiptData = NULL

\* Viewing again after a Cancel, with a draft mutation made before, a receipt
\* loaded and no draft
C21_Witness ==
    /\ lastOp.kind = "cancel editing"
    /\ nDraftEdits > 0
    /\ receiptData # NULL
    /\ ~isReceiptEditing
    /\ editingReceiptData = NULL

C23_SplitEmptyForNewReceipt ==
    lastOp.kind \in {"extracted", "commit"} => billSplit = <<>>

IsPrefix(a, b) == Len(a) <= Len(b) /\ SubSeq(b, 1, Len(a)) = a

\* C24: a step that is not an upload, a confirmed Start New Tab or a confirmed
\* Commit leaves the Conversation Log as a prefix of the log after it, and
\* whenever no Receipt is loaded the log is empty
C24_AppendOnlyLog ==
    [][/\ lastOp'.kind \notin {"upload", "new tab", "commit"} =>
             IsPrefix(chatMessages, chatMessages')
       /\ receiptData' = NULL => chatMessages' = <<>>]_vars

\* C25: a manual assignment or unassignment appends one system entry that
\* names the item and the given names, and leaves the earlier entries alone
C25_AuditTrail ==
    [][lastOp'.kind = "assign" =>
          /\ Len(chatMessages') = Len(chatMessages) + 1
          /\ SubSeq(chatMessages', 1, Len(chatMessages)) = chatMessages
          /\ LET entry == chatMessages'[Len(chatMessages')]
             IN  /\ entry.sender = "system"
                 /\ entry.text.arg = lastOp'.item.item_name
                 /\ entry.text.names = lastOp'.names
                 /\ entry.text.kind = IF Len(lastOp'.names) > 0
                                       THEN "Manually assigned"
                                       ELSE "Manually unassigned"]_vars

\* an assignment to two people and then the unassignment of the same item,
\* both in the log
C25_Witness ==
    /\ lastOp.kind = "assign"
    /\ Len(chatMessages) = 3
    /\ chatMessages[2].text.kind = "Manually assigned"
    /\ Len(chatMessages[2].text.names) = 2
    /\ chatMessages[3].text.kind = "Manually unassigned"
    /\ chatMessages[3].text.arg = chatMessages[2].text.arg
    /\ billSplit = <<>>

\* C26: while the busy flag is set, with no Receipt loaded or with blank
\* input, a chat send does nothing: the handler has no step to take
C26_BusyGatesSend ==
    \A input \in ChatInputs :
        (isLoading \/ receiptData = NULL \/ Trim(input) = "") =>
            ~ENABLED handleSendMessage(input)

\* a Receipt is loaded, the user is Viewing, the log and the calls have room,
\* the busy flag is set and the input is not blank: only the flag holds the
\* send back
C26_Witness ==
    /\ isLoading
    /\ receiptData # NULL
    /\ ~isReceiptEditing
    /\ Len(chatMessages) < MaxLog
    /\ Len(pending) = 1
    /\ pending[1].kind = "interpret"
    /\ ~ENABLED handleSendMessage("split it")

\* C27: the names of the persons in the BillSplit are pairwise distinct
C27_UniquePersonNames ==
    NoRepeats([i \in DOMAIN billSplit |-> billSplit[i].person_name])

C29_EditStateMachine ==
    [][/\ lastOp.kind = "init" => ~isReceiptEditing
       /\ (~isReceiptEditing /\ isReceiptEditing') =>
             (lastOp'.kind = "enter editing" /\ receiptData # NULL)
       /\ (isReceiptEditing /\ ~isReceiptEditing') =>
             lastOp'.kind \in {"commit", "cancel editing", "new tab", "upload"}]_vars

\* Editing was entered with people in the BillSplit and left by Cancel
C29_Witness ==
    /\ lastOp.kind = "cancel editing"
    /\ ~isReceiptEditing
    /\ billSplit # <<>>

\* C30: the Receipt changes only when an extraction succeeds, a Commit is
\* confirmed or Start New Tab is confirmed; manual assignments, chat sends and
\* the settling of interpretation calls leave it as it is
C30_ReceiptFrame ==
    [][receiptData' # receiptData =>
          lastOp'.kind \in {"extracted", "commit", "new tab"}]_vars

\* a manual assignment, a chat send and the success of its call, with the
\* Receipt still loaded
C30_Witness ==
    /\ lastOp.kind = "split updated"
    /\ receiptData # NULL
    /\ Len(chatMessages) = 3
    /\ chatMessages[2].text.kind = "Manually assigned"
    /\ chatMessages[3].sender = "user"

\* C31: right after a confirmed Start New Tab no Receipt is loaded, BillSplit
\* and Conversation Log are empty, the state is Viewing, the busy flag and the
\* error are clear
C31_ResetPostcondition ==
    lastOp.kind = "new tab" =>
        /\ receiptData = NULL
        /\ billSplit = <<>>
        /\ chatMessages = <<>>
        /\ ~isReceiptEditing
        /\ ~isLoading
        /\ error = NoError

\* Start New Tab was confirmed while a call was unsettled
C31_Witness ==
    /\ lastOp.kind = "new tab"
    /\ Len(pending) = 1
    /\ pending[1].stale

\* item names that somebody holds an entry of
HeldNames(split) ==
    UNION {{split[i].items[k].item_name : k \in DOMAIN split[i].items} :
              i \in DOMAIN split}

\* C32: the keys of the AssignmentIndex are the item names somebody holds, and
\* each key maps to the names of the persons holding it, each listed once
C32_AssignmentIndex ==
    LET index == assignedItemsMap(billSplit)
    IN  /\ DOMAIN index = HeldNames(billSplit)
        /\ \A n \in DOMAIN index :
              /\ Range(index[n]) = Holders(billSplit, n)
              /\ NoRepeats(index[n])

\* one person holds two entries of an item and is listed once for it, and
\* another item is held by two people
C32_Witness ==
    LET index == assignedItemsMap(billSplit)
    IN  /\ \E i \in DOMAIN billSplit, n \in DOMAIN index :
              /\ EntriesOf(billSplit, billSplit[i].person_name, n) = 2
              /\ index[n] = <<billSplit[i].person_name>>
        /\ \E n \in DOMAIN index : Len(index[n]) = 2

\* C33: an accepted chat send appends the message of the user, and the
\* settling of its call, with the update applied or failed, appends one
\* entry after it
C33_LogRecordsOutcome ==
    [][/\ lastOp'.kind = "send" =>
             /\ Len(chatMessages') = Len(chatMessages) + 1
             /\ IsPrefix(chatMessages, chatMessages')
             /\ chatMessages'[Len(chatMessages')].sender = "user"
       /\ lastOp'.kind \in {"split updated", "split update failed"} =>
             /\ Len(chatMessages') = Len(chatMessages) + 1
             /\ IsPrefix(chatMessages, chatMessages')]_vars

\* assignedItemsMap.get(item.item_name) || []
Assignees(split, item) ==
    IF item.item_name \in DOMAIN assignedItemsMap(split)
    THEN assignedItemsMap(split)[item.item_name]
    ELSE <<>>

\* lines of the receipt other than item that bear the name of item
Namesakes(data, item) ==
    {k \in DOMAIN data.items :
        data.items[k].item_name = item.item_name /\ data.items[k] # item}

\* C34: after a manual assignment of a line whose name another line of the
\* receipt bears too, the holders of the name are the given names, the
\* portions of the name add up to the price of the assigned line alone, and
\* the AssignmentIndex gives both lines the same assignees
C34_KeyedByName ==
    (lastOp.kind = "assign" /\ receiptData # NULL
        /\ Namesakes(receiptData, lastOp.item) # {}) =>
        /\ Holders(billSplit, lastOp.item.item_name) = Range(lastOp.names)
        /\ Len(lastOp.names) > 0 =>
              PortionsOf(billSplit, lastOp.item.item_name) = lastOp.item.price
        /\ \A k \in Namesakes(receiptData, lastOp.item) :
              Assignees(billSplit, receiptData.items[k]) = Assignees(billSplit, lastOp.item)

\* Coke was assigned to Alice, then the Coke line of price 4 to Bob: Bob alone
\* holds Coke, for 4
C34_Witness ==
    /\ lastOp.kind = "assign"
    /\ receiptData = RCokes
    /\ lastOp.item = RCokes.items[2]
    /\ Len(chatMessages) = 3
    /\ chatMessages[2].text.kind = "Manually assigned"
    /\ chatMessages[2].text.names = <<"Alice">>
    /\ lastOp.names = <<"Bob">>
    /\ Assignees(billSplit, RCokes.items[1]) = <<"Bob">>
    /\ PortionsOf(billSplit, "Coke") = Num(4)

\* C35: a manual assignment made while an interpretation call is pending is
\* still in the BillSplit when that call succeeds with a reply that does not
\* mention the item
C35_NoLostManualEdit ==
    [][(/\ lastOp.kind = "assign"
        /\ Len(lastOp.names) > 0
        /\ isLoading
        /\ lastOp'.kind = "split updated"
        /\ Holders(lastOp'.split, lastOp.item.item_name) = {})
       => Holders(billSplit', lastOp.item.item_name) = Range(lastOp.names)]_vars

\* C36: while Editing, the draft changes through the draft mutations of the
\* user only
C36_DraftStability ==
    [][(isReceiptEditing /\ isReceiptEditing'
            /\ editingReceiptData' # editingReceiptData)
       => lastOp'.kind = "draft mutation"]_vars

\* C37: while Editing no chat send and no manual assignment can be started,
\* and the BillSplit changes only when a call in flight succeeds, on Commit
\* and on Start New Tab
C37_NoReconcilerInputWhileEditing ==
    [][isReceiptEditing =>
          /\ \A input \in ChatInputs : ~ENABLED handleSendMessage(input)
          /\ \A index \in DOMAIN receiptData.items :
                /\ ~ENABLED handleUnassignItem(index)
                /\ \A pieces \in {<<>>, <<"Alice">>} :
                      ~ENABLED handleSaveAssignment(index, pieces)
          /\ billSplit' # billSplit =>
                lastOp'.kind \in {"split updated", "commit", "new tab"}]_vars

\* Editing with a non-empty BillSplit, no call in flight and room in the log:
\* only the state of the transaction keeps the chat and the rows away
C37_Witness ==
    /\ isReceiptEditing
    /\ ~isLoading
    /\ pending = <<>>
    /\ billSplit # <<>>
    /\ Len(chatMessages) < MaxLog
    /\ receiptData.items[1].item_name \in DOMAIN assignedItemsMap(billSplit)

\* C39: isLoading is true exactly in the states in which an external call is
\* in flight
C39_BusyTracksCall ==
    (pending # <<>>) <=> isLoading

\* the entries of a person whose name is not itemName, in their order
OthersOf(p, itemName) == SelectSeq(p.items, LAMBDA e : e.item_name # itemName)

\* the elements of seq in the order of their first occurrence
FirstOccurrences(seq) ==
    LET first == SelectSeq([i \in DOMAIN seq |-> i],
                           LAMBDA i : \A j \in 1..(i - 1) : seq[j] # seq[i])
    IN  [k \in DOMAIN first |-> seq[first[k]]]

\* positions of the persons of split that an assignment of itemName to names
\* keeps: those with an entry of another name, and the first bearer of each name
Survivors(split, itemName, names) ==
    SelectSeq([i \in DOMAIN split |-> i],
              LAMBDA i : \/ OthersOf(split[i], itemName) # <<>>
                         \/ \E k \in DOMAIN names : FindPerson(split, names[k]) = i)

\* C38: a manual assignment leaves the entries of every other item name with
\* their holder, portion and order, keeps the surviving persons in their
\* order, and appends the persons new to the split in the order of the names
C38_AssignFrame ==
    [][lastOp'.kind = "assign" =>
          LET itemName == lastOp'.item.item_name
              names == lastOp'.names
              kept == Survivors(billSplit, itemName, names)
              fresh == FirstOccurrences(
                           SelectSeq(names, LAMBDA n : FindPerson(billSplit, n) = 0))
          IN  /\ Len(billSplit') = Len(kept) + Len(fresh)
              /\ \A j \in DOMAIN kept :
                    /\ billSplit'[j].person_name = billSplit[kept[j]].person_name
                    /\ OthersOf(billSplit'[j], itemName)
                          = OthersOf(billSplit[kept[j]], itemName)
              /\ \A j \in DOMAIN fresh :
                    /\ billSplit'[Len(kept) + j].person_name = fresh[j]
                    /\ OthersOf(billSplit'[Len(kept) + j], itemName) = <<>>]_vars

\* Coke was assigned to Alice, then Nachos to Bob and Alice: Alice keeps her
\* Coke and her place, Bob comes after her although named first
C38_Witness ==
    /\ lastOp.kind = "assign"
    /\ lastOp.item = Nachos
    /\ lastOp.names = <<"Bob", "Alice">>
    /\ Len(chatMessages) = 3
    /\ chatMessages[2] = ChatMessage("system", "Manually assigned", "Coke", <<"Alice">>)
    /\ Len(billSplit) = 2
    /\ billSplit[1].person_name = "Alice"
    /\ OthersOf(billSplit[1], "Nachos") = <<AssignedItem("Coke", Num(5))>>
    /\ billSplit[2].person_name = "Bob"

====
